---- MODULE Spec2Model ----
(***************************************************************************)
(* Model of the school-directory scraper.                                  *)
(*                                                                         *)
(*   src/school-admin-scraper.py : clean_search_term, extract_contact_info *)
(*                                 and run_scraper_with_config             *)
(*   src/contactScraper.py       : search_districts_and_click_link_on_cde  *)
(*                                                                         *)
(* A string is a sequence of symbols.  A symbol is one character (a        *)
(* letter, a blank, a tab) or one whole word ("School", "District") that   *)
(* the regular expressions of clean_search_term look for; str.lower(),     *)
(* str.strip(), re.sub and the `in` substring test are computed on these   *)
(* sequences the way Python computes them on characters.                   *)
(***************************************************************************)
EXTENDS Integers, Sequences, FiniteSets, TLC

VARIABLES
    \* ---- run_scraper_with_config ------------------------------------------
    pc,                    \* position in run_scraper_with_config
    file_state,            \* what pd.read_excel(input_file) meets
    df,                    \* the key column of the dataset, one entry per row
    search_terms,          \* df[col].dropna().unique().tolist()
    i,                     \* 1-based index of the term of the current iteration
    driver,                \* the local `driver`: "None" or "Firefox"
    session,               \* the browser session: none, alive, lost, closed
    page,                  \* the page the session shows
    search_bar,            \* iteration in which `search_bar` was located (0: unbound)
    search_term,           \* clean_search_term(original_term) of the iteration
    landed_on_detail_page,
    processed_count,
    skipped_items,
    scraped_records,
    excel_file,            \* [calls, ok, rows]: merged_df.to_excel(input_file) calls,
                           \* whether the last succeeded, the rows handed to it
    skipped_file,          \* [written, lines]: skipped_items.txt
    abort,                 \* how the for loop was left early: "none", "break" or
                           \* the exception that reached line 212
    \* ---- what the browser showed in the current iteration -----------------
    submitted,             \* [from, bar]: page and search_bar at the time of typing
    title,                 \* [state, text]: the detail-title element as lines 150-151 met it
    results_wait,          \* outcome of the WebDriverWait of line 160
    result_links,          \* the candidates it returned
    clicked,               \* index of the candidate link.click() acted on (0: none)
    roles_tried,           \* per role of the configuration, in order, what line 184 met
    \* ---- clean_search_term applied to an arbitrary string ----------------
    term,                  \* the argument
    cleaned_name,          \* clean_search_term(term)
    cleaned_again,         \* clean_search_term(clean_search_term(term))
    \* ---- extract_contact_info applied to an arbitrary block ---------------
    td_block,              \* the argument
    contact_info,          \* extract_contact_info(td_block)
    role_records,          \* what lines 187-196 append for it
    \* ---- search_districts_and_click_link_on_cde ---------------------------
    cde_pc,                \* position in search_districts_and_click_link_on_cde
    district_names,        \* df[col].dropna().unique().tolist()
    cde_i,                 \* 1-based index of the district of the current iteration
    cde_driver,            \* its local `driver`: "None" or "Firefox"
    cde_session,           \* its browser session: none, alive, lost, closed
    cde_page,              \* the page that session shows
    cde_ready,             \* lines 57-68 ran through: browser started, entry URL loaded
    cde_typed_from,        \* the page shown when the district of the iteration was typed
    cde_outcomes           \* how each finished iteration ended, in order

vars == <<pc, file_state, df, search_terms, i, driver, session, page, search_bar,
          search_term, landed_on_detail_page, processed_count, skipped_items,
          scraped_records, excel_file, skipped_file, abort, submitted, title,
          results_wait, result_links, clicked, roles_tried,
          term, cleaned_name, cleaned_again,
          td_block, contact_info, role_records,
          cde_pc, district_names, cde_i, cde_driver, cde_session, cde_page,
          cde_ready, cde_typed_from, cde_outcomes>>

scraperVars == <<pc, file_state, df, search_terms, i, driver, session, page,
                 search_bar, search_term, landed_on_detail_page, processed_count,
                 skipped_items, scraped_records, excel_file, skipped_file, abort,
                 submitted, title, results_wait, result_links, clicked, roles_tried>>

cleanVars == <<term, cleaned_name, cleaned_again>>

extractVars == <<td_block, contact_info, role_records>>

cdeVars == <<cde_pc, district_names, cde_i, cde_driver, cde_session, cde_page,
             cde_ready, cde_typed_from, cde_outcomes>>

(***************************************************************************)
(* Bounds                                                                  *)
(***************************************************************************)
\* longest string handed to clean_search_term in SpecClean
MaxLen == 5
\* most rows of the input dataset
MaxRows == 2
\* most candidate links one results page renders
MaxLinks == 2
\* longest td_element.text handed to extract_contact_info in SpecExtract
MaxTextLen == 3

(***************************************************************************)
(* Strings                                                                 *)
(***************************************************************************)
\* the symbols of the strings handed to clean_search_term in SpecClean
Symbols == {"A", "b", " ", "\t", "School", "District", "DISTRICT"}

\* all sequences over S of length 0..n
RECURSIVE SeqsUpTo(_, _)
SeqsUpTo(S, n) ==
    IF n = 0 THEN {<<>>}
    ELSE LET shorter == SeqsUpTo(S, n - 1)
         IN  shorter \cup {Append(s, c) : s \in {t \in shorter : Len(t) = n - 1}, c \in S}

\* the regular expressions' \s and str.strip()'s whitespace
IsSpace(c) == c \in {" ", "\t", "\n"}

\* str.lower() of one symbol
LowerSym(c) ==
    CASE c = "A" -> "a"
      [] c = "B" -> "b"
      [] c = "School" -> "school"
      [] c = "District" -> "district"
      [] c = "DISTRICT" -> "district"
      [] OTHER -> c

\* str.lower()
Lower(s) == [k \in 1..Len(s) |-> LowerSym(s[k])]

RECURSIVE RStrip(_)
RStrip(s) ==
    IF s # <<>> /\ IsSpace(s[Len(s)]) THEN RStrip(SubSeq(s, 1, Len(s) - 1)) ELSE s

RECURSIVE LStrip(_)
LStrip(s) ==
    IF s # <<>> /\ IsSpace(s[1]) THEN LStrip(Tail(s)) ELSE s

\* str.strip()
Strip(s) == LStrip(RStrip(s))

\* `needle in hay` for Python strings
Contains(needle, hay) ==
    \E k \in 0..(Len(hay) - Len(needle)) :
        SubSeq(hay, k + 1, k + Len(needle)) = needle

\* `a.lower() in b.lower()`
ContainsIgnoreCase(a, b) == Contains(Lower(a), Lower(b))

(***************************************************************************)
(* clean_search_term                                                       *)
(***************************************************************************)
\* s ends with: one or more whitespace, then the word w (re.IGNORECASE), then $
EndsWithSpacedWord(s, w) ==
    /\ Len(s) >= 2
    /\ LowerSym(s[Len(s)]) = w
    /\ IsSpace(s[Len(s) - 1])

\* s without its last symbol and without the whitespace run before it: the
\* leftmost match of \s+w$ starts where that run starts
DropSpacedWord(s) == RStrip(SubSeq(s, 1, Len(s) - 1))

\* re.sub(r'\s+school\s+district$', '', s, flags=re.IGNORECASE)
SubSchoolDistrict(s) ==
    IF EndsWithSpacedWord(s, "district")
         /\ EndsWithSpacedWord(DropSpacedWord(s), "school")
    THEN DropSpacedWord(DropSpacedWord(s))
    ELSE s

\* re.sub(r'\s+district$', '', s, flags=re.IGNORECASE)
SubDistrict(s) ==
    IF EndsWithSpacedWord(s, "district") THEN DropSpacedWord(s) ELSE s

\* re.sub(r'\s+', ' ', s): every maximal whitespace run becomes one blank
RECURSIVE CollapseSpaces(_)
CollapseSpaces(s) ==
    IF s = <<>> THEN <<>>
    ELSE IF IsSpace(s[1]) THEN <<" ">> \o CollapseSpaces(LStrip(s))
    ELSE <<s[1]>> \o CollapseSpaces(Tail(s))

clean_search_term(t) ==
    LET c0 == Strip(t)
        c1 == Strip(SubSchoolDistrict(c0))
        c2 == Strip(SubDistrict(c1))
    IN  Strip(CollapseSpaces(c2))

(***************************************************************************)
(* SpecClean: clean_search_term applied once and twice to every string of  *)
(* at most MaxLen symbols.                                                 *)
(***************************************************************************)
\* the scraper's variables while run_scraper_with_config is not running
ScraperIdle ==
    /\ pc = "idle"
    /\ file_state = "ok"
    /\ df = <<>>
    /\ search_terms = <<>>
    /\ i = 0
    /\ driver = "None"
    /\ session = "none"
    /\ page = "blank"
    /\ search_bar = 0
    /\ search_term = <<>>
    /\ landed_on_detail_page = FALSE
    /\ processed_count = 0
    /\ skipped_items = <<>>
    /\ scraped_records = <<>>
    /\ excel_file = [calls |-> 0, ok |-> FALSE, rows |-> <<>>]
    /\ skipped_file = [written |-> FALSE, lines |-> <<>>]
    /\ abort = "none"
    /\ submitted = [from |-> "none", bar |-> 0]
    /\ title = [state |-> "unread", text |-> <<>>]
    /\ results_wait = "none"
    /\ result_links = <<>>
    /\ clicked = 0
    /\ roles_tried = <<>>

\* the string variables while clean_search_term has no caller
CleanIdle ==
    /\ term = <<>>
    /\ cleaned_name = <<"unset">>
    /\ cleaned_again = <<"unset">>

\* the block variables while extract_contact_info has no caller
ExtractIdle ==
    /\ td_block = [text |-> <<>>, mailto |-> [kind |-> "none", href |-> <<>>]]
    /\ contact_info = [name |-> <<"unset">>, phone |-> <<"unset">>, email |-> <<"unset">>]
    /\ role_records = <<>>

\* the variables of search_districts_and_click_link_on_cde while it is not running
CdeIdle ==
    /\ cde_pc = "idle"
    /\ district_names = <<>>
    /\ cde_i = 0
    /\ cde_driver = "None"
    /\ cde_session = "none"
    /\ cde_page = "blank"
    /\ cde_ready = FALSE
    /\ cde_typed_from = "none"
    /\ cde_outcomes = <<>>

InitClean ==
    /\ ScraperIdle
    /\ ExtractIdle
    /\ CdeIdle
    /\ term \in SeqsUpTo(Symbols, MaxLen)
    /\ cleaned_name = <<"unset">>
    /\ cleaned_again = <<"unset">>

\* cleaned = clean_search_term(term)
CleanOnce ==
    /\ pc = "idle"
    /\ pc' = "cleaned"
    /\ cleaned_name' = clean_search_term(term)
    /\ UNCHANGED <<file_state, df, search_terms, i, driver, session, page,
                   search_bar, search_term, landed_on_detail_page, processed_count,
                   skipped_items, scraped_records, excel_file, skipped_file, abort,
                   submitted, title, results_wait, result_links, clicked,
                   roles_tried, term, cleaned_again>>
    /\ UNCHANGED <<extractVars, cdeVars>>

\* the result handed to clean_search_term again
CleanTwice ==
    /\ pc = "cleaned"
    /\ pc' = "recleaned"
    /\ cleaned_again' = clean_search_term(cleaned_name)
    /\ UNCHANGED <<file_state, df, search_terms, i, driver, session, page,
                   search_bar, search_term, landed_on_detail_page, processed_count,
                   skipped_items, scraped_records, excel_file, skipped_file, abort,
                   submitted, title, results_wait, result_links, clicked,
                   roles_tried, term, cleaned_name>>
    /\ UNCHANGED <<extractVars, cdeVars>>

NextClean == CleanOnce \/ CleanTwice

SpecClean == InitClean /\ [][NextClean]_vars

(***************************************************************************)
(* The data run_scraper_with_config works on                               *)
(***************************************************************************)
\* an empty cell of the key column
NaN == <<"NaN">>

\* the values a cell of the key column holds: a name with a trailing
\* qualifier, a plain name, a cell of blanks only
RawTerms == {<<"A", " ", "District">>, <<"b">>, <<" ">>}

\* the texts a detail title or a candidate link displays
PageTexts == {<<"A", "b">>, <<"b">>}

\* WEBSITE_CONFIG['contact_data_xpaths'], in the order .items() yields it
Roles == <<"Superintendent", "Chief Business Official">>

NA == <<"N/A">>

\* one rendered candidate: its link.text and its link.is_displayed()
Candidates == [text : PageTexts, displayed : BOOLEAN]

\* the non-empty lists presence_of_all_elements_located returns
CandidateLists == SeqsUpTo(Candidates, MaxLinks) \ {<<>>}

\* df[col].dropna()
RECURSIVE DropNa(_)
DropNa(col) ==
    IF col = <<>> THEN <<>>
    ELSE IF col[1] = NaN THEN DropNa(Tail(col))
    ELSE <<col[1]>> \o DropNa(Tail(col))

\* Series.unique(): the distinct values in order of first appearance
RECURSIVE Unique(_)
Unique(col) ==
    IF col = <<>> THEN <<>>
    ELSE LET init == Unique(SubSeq(col, 1, Len(col) - 1))
             last == col[Len(col)]
         IN  IF \E k \in 1..Len(init) : init[k] = last THEN init ELSE Append(init, last)

(***************************************************************************)
(* extract_contact_info                                                    *)
(*                                                                         *)
(* A td element is [text, mailto]: text is td_element.text, a string with  *)
(* "\n" between its lines in which the symbol "916-555-0100" stands for a  *)
(* substring the phone pattern matches; mailto is what                     *)
(* find_element("a[href^='mailto:']") meets: no such element, an element   *)
(* with its href, or another exception.                                    *)
(***************************************************************************)
IsPhone(c) == c = "916-555-0100"

\* str.split('\n')
RECURSIVE SplitLines(_)
SplitLines(s) ==
    IF \E k \in 1..Len(s) : s[k] = "\n"
    THEN LET k == CHOOSE k \in 1..Len(s) : s[k] = "\n" /\ \A j \in 1..(k - 1) : s[j] # "\n"
         IN  <<SubSeq(s, 1, k - 1)>> \o SplitLines(SubSeq(s, k + 1, Len(s)))
    ELSE <<s>>

\* [line.strip() for line in lines if line.strip()]
RECURSIVE StrippedNonEmpty(_)
StrippedNonEmpty(ls) ==
    IF ls = <<>> THEN <<>>
    ELSE IF Strip(ls[1]) = <<>> THEN StrippedNonEmpty(Tail(ls))
    ELSE <<Strip(ls[1])>> \o StrippedNonEmpty(Tail(ls))

\* re.search(phone pattern, full_text): the first match, else "N/A"
PhoneOf(full_text) ==
    IF \E k \in 1..Len(full_text) : IsPhone(full_text[k])
    THEN LET k == CHOOSE k \in 1..Len(full_text) :
                      IsPhone(full_text[k]) /\ \A j \in 1..(k - 1) : ~IsPhone(full_text[j])
         IN  <<full_text[k]>>
    ELSE NA

\* line 53 without its replace: the href as it stands
KeepMailto(href) == href

\* href.replace("mailto:", "")
RECURSIVE RemoveMailto(_)
RemoveMailto(href) ==
    IF href = <<>> THEN <<>>
    ELSE IF href[1] = "mailto:" THEN RemoveMailto(Tail(href))
    ELSE <<href[1]>> \o RemoveMailto(Tail(href))

extract_contact_info(td_element) ==
    LET full_text == Strip(td_element.text)
        lines == StrippedNonEmpty(SplitLines(full_text))
    IN  [name  |-> IF lines # <<>> THEN lines[1] ELSE NA,
         phone |-> PhoneOf(full_text),
         email |-> IF td_element.mailto.kind = "link"
                   THEN RemoveMailto(td_element.mailto.href)
                   ELSE NA]

\* the field blocks a detail page shows for a role
TdElements ==
    { [text |-> <<"Jane", "\n", "916-555-0100">>,
       mailto |-> [kind |-> "link", href |-> <<"mailto:", "j@x">>]],
      [text |-> <<"Jane">>,
       mailto |-> [kind |-> "link", href |-> <<"mailto:", "j@x">>]],
      [text |-> <<" ">>,
       mailto |-> [kind |-> "none", href |-> <<>>]] }

\* what line 184-185 meets for one role: NoSuchElementException, another
\* exception, or a block
RoleOutcomes ==
    {[kind |-> "absent", td |-> <<>>], [kind |-> "error", td |-> <<>>]}
        \cup {[kind |-> "block", td |-> td] : td \in TdElements}

(***************************************************************************)
(* run_scraper_with_config                                                 *)
(***************************************************************************)
Init ==
    /\ pc = "load"
    /\ file_state \in {"missing", "unreadable", "no_column", "ok"}
    /\ df \in IF file_state = "ok" THEN SeqsUpTo(RawTerms \cup {NaN}, MaxRows) ELSE {<<>>}
    /\ search_terms = <<>>
    /\ i = 0
    /\ driver = "None"
    /\ session = "none"
    /\ page = "blank"
    /\ search_bar = 0
    /\ search_term = <<>>
    /\ landed_on_detail_page = FALSE
    /\ processed_count = 0
    /\ skipped_items = <<>>
    /\ scraped_records = <<>>
    /\ excel_file = [calls |-> 0, ok |-> FALSE, rows |-> <<>>]
    /\ skipped_file = [written |-> FALSE, lines |-> <<>>]
    /\ abort = "none"
    /\ submitted = [from |-> "none", bar |-> 0]
    /\ title = [state |-> "unread", text |-> <<>>]
    /\ results_wait = "none"
    /\ result_links = <<>>
    /\ clicked = 0
    /\ roles_tried = <<>>
    /\ CleanIdle
    /\ ExtractIdle
    /\ CdeIdle

\* lines 82-96 without their return statements: the run goes on after an
\* input error, with no term
LoadInputIgnoringErrors ==
    /\ pc = "load"
    /\ IF file_state = "ok"
       THEN /\ search_terms' = Unique(DropNa(df))
            /\ pc' = IF search_terms' = <<>> THEN "returned" ELSE "start"
       ELSE /\ pc' = "start"
            /\ UNCHANGED search_terms
    /\ UNCHANGED <<file_state, df, i, driver, session, page, search_bar, search_term,
                   landed_on_detail_page, processed_count, skipped_items,
                   scraped_records, excel_file, skipped_file, abort, submitted,
                   title, results_wait, result_links, clicked, roles_tried>>
    /\ UNCHANGED <<cleanVars, extractVars, cdeVars>>

\* lines 82-103: read the file, check the column, take the unique terms
LoadInput ==
    /\ pc = "load"
    /\ IF file_state = "ok"
       THEN /\ search_terms' = Unique(DropNa(df))
            /\ pc' = IF search_terms' = <<>> THEN "returned" ELSE "start"
       ELSE /\ pc' = "returned"
            /\ UNCHANGED search_terms
    /\ UNCHANGED <<file_state, df, i, driver, session, page, search_bar, search_term,
                   landed_on_detail_page, processed_count, skipped_items,
                   scraped_records, excel_file, skipped_file, abort, submitted,
                   title, results_wait, result_links, clicked, roles_tried>>
    /\ UNCHANGED <<cleanVars, extractVars, cdeVars>>

\* line 112: driver = webdriver.Firefox(); on an exception lines 115-118 return
StartBrowser ==
    /\ pc = "start"
    /\ \E started \in BOOLEAN :
          IF started
          THEN /\ driver' = "Firefox"
               /\ session' = "alive"
               /\ pc' = "maximize"
          ELSE /\ pc' = "returned"
               /\ UNCHANGED <<driver, session>>
    /\ UNCHANGED <<file_state, df, search_terms, i, page, search_bar, search_term,
                   landed_on_detail_page, processed_count, skipped_items,
                   scraped_records, excel_file, skipped_file, abort, submitted,
                   title, results_wait, result_links, clicked, roles_tried>>
    /\ UNCHANGED <<cleanVars, extractVars, cdeVars>>

\* line 113: driver.maximize_window(); on an exception lines 115-118 return
MaximizeWindow ==
    /\ pc = "maximize"
    /\ \E maximized \in BOOLEAN :
          IF maximized
          THEN /\ pc' = "loop"
               /\ UNCHANGED session
          ELSE /\ pc' = "returned"
               /\ session' \in {"alive", "lost"}
    /\ UNCHANGED <<file_state, df, search_terms, i, driver, page, search_bar,
                   search_term, landed_on_detail_page, processed_count, skipped_items,
                   scraped_records, excel_file, skipped_file, abort, submitted,
                   title, results_wait, result_links, clicked, roles_tried>>
    /\ UNCHANGED <<cleanVars, extractVars, cdeVars>>

\* driver.get called before the loop only, as contactScraper.py does: a later
\* iteration starts on the page the previous one left
GetEntryPageOnce(shown) == IF shown = "blank" THEN "entry" ELSE shown

\* line 126: the page the session shows once driver.get(config['url']) has
\* returned, whatever page it showed before
GetEntryPage(shown) == "entry"

\* the loop of line 123 without its advance: after the first term the same term
\* is taken again
NextTermWithoutAdvance ==
    /\ pc = "loop"
    /\ IF i = Len(search_terms)
       THEN /\ pc' = "finally"
            /\ UNCHANGED <<i, session, page, abort, submitted, title, results_wait,
                           result_links, clicked, roles_tried, landed_on_detail_page>>
       ELSE /\ i' = IF i = 0 THEN 1 ELSE i
            /\ submitted' = [from |-> "none", bar |-> 0]
            /\ title' = [state |-> "unread", text |-> <<>>]
            /\ results_wait' = "none"
            /\ result_links' = <<>>
            /\ clicked' = 0
            /\ roles_tried' = <<>>
            /\ UNCHANGED landed_on_detail_page
            /\ \E loaded \in BOOLEAN :
                  IF loaded /\ session = "alive"
                  THEN /\ page' = GetEntryPage(page)
                       /\ pc' = "wait_bar"
                       /\ UNCHANGED <<session, abort>>
                  ELSE /\ session' = "lost"
                       /\ abort' = "WebDriverException"
                       /\ pc' = "finally"
                       /\ UNCHANGED page
    /\ UNCHANGED <<file_state, df, search_terms, driver, search_bar, search_term,
                   processed_count, skipped_items, scraped_records, excel_file,
                   skipped_file>>
    /\ UNCHANGED <<cleanVars, extractVars, cdeVars>>

\* lines 123-126: the next term of the for loop and driver.get(config['url']);
\* an exception of driver.get reaches line 212
NextTerm ==
    /\ pc = "loop"
    /\ IF i = Len(search_terms)
       THEN /\ pc' = "finally"
            /\ UNCHANGED <<i, session, page, abort, submitted, title, results_wait,
                           result_links, clicked, roles_tried, landed_on_detail_page>>
       ELSE /\ i' = i + 1
            /\ submitted' = [from |-> "none", bar |-> 0]
            /\ title' = [state |-> "unread", text |-> <<>>]
            /\ results_wait' = "none"
            /\ result_links' = <<>>
            /\ clicked' = 0
            /\ roles_tried' = <<>>
            /\ UNCHANGED landed_on_detail_page
            /\ \E loaded \in BOOLEAN :
                  IF loaded /\ session = "alive"
                  THEN /\ page' = GetEntryPage(page)
                       /\ pc' = "wait_bar"
                       /\ UNCHANGED <<session, abort>>
                  ELSE /\ session' = "lost"
                       /\ abort' = "WebDriverException"
                       /\ pc' = "finally"
                       /\ UNCHANGED page
    /\ UNCHANGED <<file_state, df, search_terms, driver, search_bar, search_term,
                   processed_count, skipped_items, scraped_records, excel_file,
                   skipped_file>>
    /\ UNCHANGED <<cleanVars, extractVars, cdeVars>>

\* lines 128-134 with `continue` for `break`: after the timeout the loop goes
\* on with the next term
WaitSearchBarContinues ==
    /\ pc = "wait_bar"
    /\ \E found \in {"located", "TimeoutException", "WebDriverException"} :
          CASE found = "located" ->
                 /\ page # "blank"
                 /\ search_bar' = i
                 /\ pc' = "submit"
                 /\ UNCHANGED <<abort, session>>
            [] found = "TimeoutException" ->
                 /\ abort' = "break"
                 /\ pc' = "loop"
                 /\ UNCHANGED <<search_bar, session>>
            [] found = "WebDriverException" ->
                 /\ abort' = "WebDriverException"
                 /\ session' = "lost"
                 /\ pc' = "finally"
                 /\ UNCHANGED search_bar
    /\ UNCHANGED <<file_state, df, search_terms, i, driver, page, search_term,
                   landed_on_detail_page, processed_count, skipped_items,
                   scraped_records, excel_file, skipped_file, submitted, title,
                   results_wait, result_links, clicked, roles_tried>>
    /\ UNCHANGED <<cleanVars, extractVars, cdeVars>>

\* lines 128-134: wait for the search field; a TimeoutException breaks the loop
WaitSearchBar ==
    /\ pc = "wait_bar"
    /\ \E found \in {"located", "TimeoutException", "WebDriverException"} :
          CASE found = "located" ->
                 /\ page # "blank"
                 /\ search_bar' = i
                 /\ pc' = "submit"
                 /\ UNCHANGED <<abort, session>>
            [] found = "TimeoutException" ->
                 /\ abort' = "break"
                 /\ pc' = "finally"
                 /\ UNCHANGED <<search_bar, session>>
            [] found = "WebDriverException" ->
                 /\ abort' = "WebDriverException"
                 /\ session' = "lost"
                 /\ pc' = "finally"
                 /\ UNCHANGED search_bar
    /\ UNCHANGED <<file_state, df, search_terms, i, driver, page, search_term,
                   landed_on_detail_page, processed_count, skipped_items,
                   scraped_records, excel_file, skipped_file, submitted, title,
                   results_wait, result_links, clicked, roles_tried>>
    /\ UNCHANGED <<cleanVars, extractVars, cdeVars>>

\* lines 136-146: clear the field, type clean_search_term(original_term), RETURN
SubmitSearch ==
    /\ pc = "submit"
    /\ \E sent \in BOOLEAN :
          IF sent
          THEN /\ search_term' = clean_search_term(search_terms[i])
               /\ submitted' = [from |-> page, bar |-> search_bar]
               /\ page' = "searched"
               /\ pc' = "landing"
               /\ UNCHANGED <<abort, session>>
          ELSE /\ abort' = "WebDriverException"
               /\ session' = "lost"
               /\ pc' = "finally"
               /\ UNCHANGED <<search_term, submitted, page>>
    /\ UNCHANGED <<file_state, df, search_terms, i, driver, search_bar,
                   landed_on_detail_page, processed_count, skipped_items,
                   scraped_records, excel_file, skipped_file, title, results_wait,
                   result_links, clicked, roles_tried>>
    /\ UNCHANGED <<cleanVars, extractVars, cdeVars>>

\* the skipped line keyed by the cleaned term instead of the original one
FormatSkippedCleaned(original_term, reason) ==
    clean_search_term(original_term) \o <<" (", reason, ")">>

\* lines 171, 176, 208: f"{original_term} (<reason>)"
FormatSkipped(original_term, reason) == original_term \o <<" (", reason, ")">>

\* line 151 without its containment test: any title element counts as a match
TitlePresent(st, text) == TRUE

\* line 151: search_term.lower() in page_name_element.text.lower()
TitleMatches(st, text) == ContainsIgnoreCase(st, text)

\* lines 148-155: is the page a detail page whose title contains the term?  A
\* missing title element is passed over; any other exception reaches line 212
CheckLanding ==
    /\ pc = "landing"
    /\ \E met \in {[state |-> "absent", text |-> <<>>],
                   [state |-> "stale", text |-> <<>>],
                   [state |-> "lost", text |-> <<>>]}
                      \cup {[state |-> "read", text |-> t] : t \in PageTexts} :
          /\ title' = met
          /\ CASE met.state = "absent" ->
                    /\ landed_on_detail_page' = FALSE
                    /\ pc' = "results"
                    /\ UNCHANGED <<abort, session, page>>
               [] met.state = "read" ->
                    /\ landed_on_detail_page' = TitleMatches(search_term, met.text)
                    /\ pc' = IF landed_on_detail_page' THEN "extract" ELSE "results"
                    /\ page' = IF landed_on_detail_page' THEN "detail" ELSE page
                    /\ UNCHANGED <<abort, session>>
               [] met.state = "stale" ->
                    /\ landed_on_detail_page' = FALSE
                    /\ abort' = "StaleElementReferenceException"
                    /\ pc' = "finally"
                    /\ UNCHANGED <<session, page>>
               [] met.state = "lost" ->
                    /\ landed_on_detail_page' = FALSE
                    /\ abort' = "WebDriverException"
                    /\ session' = "lost"
                    /\ pc' = "finally"
                    /\ UNCHANGED page
    /\ UNCHANGED <<file_state, df, search_terms, i, driver, search_bar, search_term,
                   processed_count, skipped_items, scraped_records, excel_file,
                   skipped_file, submitted, results_wait, result_links, clicked,
                   roles_tried>>
    /\ UNCHANGED <<cleanVars, extractVars, cdeVars>>

\* lines 164-165: whether the loop stops at this link
LinkMatches(st, link) == ContainsIgnoreCase(st, link.text)

\* lines 164-168: the index of the link the loop clicks, 0 when it ends unbroken
MatchIndex(st, links) ==
    IF \E k \in 1..Len(links) : LinkMatches(st, links[k])
    THEN CHOOSE k \in 1..Len(links) :
             /\ LinkMatches(st, links[k])
             /\ \A j \in 1..(k - 1) : ~LinkMatches(st, links[j])
    ELSE 0

\* the last link the loop of lines 164-168 reads
LastVisited(st, links) ==
    IF MatchIndex(st, links) = 0 THEN Len(links) ELSE MatchIndex(st, links)

\* what can go wrong while the loop of lines 164-168 handles the links: the
\* reference of a link it reads is stale when link.text is read, or the link
\* it clicks is stale, or is not displayed and cannot be clicked
LinkFaults(st, links) ==
    {[at |-> 0, op |-> "none"]}
        \cup {[at |-> k, op |-> "text_stale"] : k \in 1..LastVisited(st, links)}
        \cup {[at |-> k, op |-> "click_stale"] : k \in {MatchIndex(st, links)} \ {0}}
        \cup {[at |-> k, op |-> "click_not_interactable"] :
                  k \in {j \in {MatchIndex(st, links)} \ {0} : ~links[j].displayed}}

\* line 176 with the reason of line 171 copied into it
ReasonCopiedFromNoLink == "No matching link"

\* the reason written by line 176
ReasonNoResults == "No search results"
\* the reason written by line 171
ReasonNoLink == "No matching link"
\* the reason written by line 208
ReasonNoData == "No contact data found"

\* lines 157-177: wait for the result links, click the first whose text
\* contains the term; TimeoutException and NoSuchElementException skip the
\* term, no match skips the term, every other exception reaches line 212
MatchResults ==
    /\ pc = "results"
    /\ \/ \* line 160 raises TimeoutException: lines 174-177
          /\ results_wait' = "timeout"
          /\ skipped_items' = Append(skipped_items,
                                     FormatSkipped(search_terms[i], ReasonNoResults))
          /\ pc' = "loop"
          /\ UNCHANGED <<result_links, clicked, abort, session, page>>
       \/ \* the session is lost while waiting
          /\ results_wait' = "lost"
          /\ abort' = "WebDriverException"
          /\ session' = "lost"
          /\ pc' = "finally"
          /\ UNCHANGED <<result_links, clicked, skipped_items, page>>
       \/ \* line 160 returns the links
          \E links \in CandidateLists : \E fault \in LinkFaults(search_term, links) :
             LET m == MatchIndex(search_term, links)
             IN  /\ results_wait' = "rendered"
                 /\ result_links' = links
                 /\ UNCHANGED session
                 /\ IF fault.op = "text_stale"
                    THEN /\ abort' = "StaleElementReferenceException"
                         /\ pc' = "finally"
                         /\ UNCHANGED <<clicked, skipped_items, page>>
                    ELSE IF m = 0
                    THEN /\ skipped_items' = Append(skipped_items,
                                                FormatSkipped(search_terms[i], ReasonNoLink))
                         /\ pc' = "loop"
                         /\ UNCHANGED <<clicked, abort, page>>
                    ELSE IF fault.op \in {"click_stale", "click_not_interactable"}
                    THEN /\ abort' = IF fault.op = "click_stale"
                                     THEN "StaleElementReferenceException"
                                     ELSE "ElementNotInteractableException"
                         /\ pc' = "finally"
                         /\ UNCHANGED <<clicked, skipped_items, page>>
                    ELSE /\ clicked' = m
                         /\ page' = "detail"
                         /\ pc' = "extract"
                         /\ UNCHANGED <<abort, skipped_items>>
    /\ UNCHANGED <<file_state, df, search_terms, i, driver, search_bar, search_term,
                   landed_on_detail_page, processed_count, scraped_records,
                   excel_file, skipped_file, submitted, title, roles_tried>>
    /\ UNCHANGED <<cleanVars, extractVars, cdeVars>>

\* the record keyed by the term as it was typed into the search field
RoleRecordsCleanedKey(original_term, job_title, met) ==
    IF met.kind = "block" /\ extract_contact_info(met.td).name # NA
    THEN LET info == extract_contact_info(met.td)
         IN  <<[term |-> clean_search_term(original_term), name |-> info.name,
                job_title |-> job_title, email |-> info.email, phone |-> info.phone]>>
    ELSE <<>>

\* lines 184-196 for one role: the record appended, if any
RoleRecords(original_term, job_title, met) ==
    IF met.kind = "block" /\ extract_contact_info(met.td).name # NA
    THEN LET info == extract_contact_info(met.td)
         IN  <<[term |-> original_term, name |-> info.name, job_title |-> job_title,
                email |-> info.email, phone |-> info.phone]>>
    ELSE <<>>

\* the loop over the roles left at the first role that is absent or raises
RECURSIVE AllRoleRecordsUntilFailure(_, _, _)
AllRoleRecordsUntilFailure(original_term, mets, k) ==
    IF k > Len(mets) \/ mets[k].kind # "block" THEN <<>>
    ELSE RoleRecords(original_term, Roles[k], mets[k])
             \o AllRoleRecordsUntilFailure(original_term, mets, k + 1)

\* lines 182-203: the records the loop over the roles appends, in order
RECURSIVE AllRoleRecords(_, _, _)
AllRoleRecords(original_term, mets, k) ==
    IF k > Len(mets) THEN <<>>
    ELSE RoleRecords(original_term, Roles[k], mets[k])
             \o AllRoleRecords(original_term, mets, k + 1)

\* what the roles of one detail page can meet, one entry per role
RoleMeetings == [1..Len(Roles) -> RoleOutcomes]

\* lines 179-210: extract every role, count the term processed or skipped
ExtractContacts ==
    /\ pc = "extract"
    /\ \E mets \in RoleMeetings : \E lost \in BOOLEAN :
          LET records == AllRoleRecords(search_terms[i], mets, 1)
              found_data == records # <<>>
          IN  /\ lost => mets[Len(Roles)].kind = "error"
              /\ roles_tried' = mets
              /\ session' = IF lost THEN "lost" ELSE session
              /\ scraped_records' = scraped_records \o records
              /\ IF found_data
                 THEN /\ processed_count' = processed_count + 1
                      /\ UNCHANGED skipped_items
                 ELSE /\ skipped_items' = Append(skipped_items,
                                             FormatSkipped(search_terms[i], ReasonNoData))
                      /\ UNCHANGED processed_count
    \* the element references of the search step do not outlive it
    /\ title' = [state |-> "unread", text |-> <<>>]
    /\ results_wait' = "none"
    /\ result_links' = <<>>
    /\ clicked' = 0
    /\ pc' = "loop"
    /\ UNCHANGED <<file_state, df, search_terms, i, driver, page, search_bar,
                   search_term, landed_on_detail_page, excel_file, skipped_file,
                   abort, submitted>>
    /\ UNCHANGED <<cleanVars, extractVars, cdeVars>>

\* a cell pd.merge leaves without a value
Blank == NaN

\* an inner join: a row of df without a record yields no row
RowsForInner(col, records, r) ==
    LET matches == SelectSeq(records, LAMBDA rec : rec.term = col[r])
    IN  [k \in 1..Len(matches) |->
            [row |-> r, key |-> col[r], name |-> matches[k].name,
             job_title |-> <<matches[k].job_title>>,
             email |-> matches[k].email, phone |-> matches[k].phone]]

\* the rows pd.merge(df, scraped_df, how='left') yields for row r of df
RowsFor(col, records, r) ==
    LET matches == SelectSeq(records, LAMBDA rec : rec.term = col[r])
    IN  IF matches = <<>>
        THEN <<[row |-> r, key |-> col[r], name |-> Blank, job_title |-> Blank,
                email |-> Blank, phone |-> Blank]>>
        ELSE [k \in 1..Len(matches) |->
                 [row |-> r, key |-> col[r], name |-> matches[k].name,
                  job_title |-> <<matches[k].job_title>>,
                  email |-> matches[k].email, phone |-> matches[k].phone]]

\* line 223: pd.merge(df, scraped_df, on=config['input_column'], how='left')
RECURSIVE MergeLeft(_, _, _)
MergeLeft(col, records, r) ==
    IF r > Len(col) THEN <<>>
    ELSE RowsFor(col, records, r) \o MergeLeft(col, records, r + 1)

\* lines 241-243: one line per skipped item
SkippedLines(items) == [k \in 1..Len(items) |-> items[k] \o <<"\n">>]

\* line 221 without its test: the dataset is saved on every run
SaveAlways(records) == TRUE

\* line 221: `if scraped_records:`
SaveNeeded(records) == records # <<>>

\* the save step placed at the end of the try block instead of in the
\* finally block: it runs only when the loop was not left early
FinallySaveOnlyAfterFullRun ==
    /\ pc = "finally"
    /\ session' = IF driver # "None" THEN "closed" ELSE session
    /\ IF SaveNeeded(scraped_records) /\ abort = "none"
       THEN \E saved \in BOOLEAN :
               excel_file' = [calls |-> excel_file.calls + 1, ok |-> saved,
                              rows |-> MergeLeft(df, scraped_records, 1)]
       ELSE UNCHANGED excel_file
    /\ IF skipped_items # <<>>
       THEN skipped_file' = [written |-> TRUE, lines |-> SkippedLines(skipped_items)]
       ELSE UNCHANGED skipped_file
    /\ pc' = "done"
    /\ UNCHANGED <<file_state, df, search_terms, i, driver, page, search_bar,
                   search_term, landed_on_detail_page, processed_count, skipped_items,
                   scraped_records, abort, submitted, title, results_wait,
                   result_links, clicked, roles_tried>>
    /\ UNCHANGED <<cleanVars, extractVars, cdeVars>>

\* lines 215-244: close the browser, save the merged dataset if any record
\* was scraped, print the summary, write skipped_items.txt if any term was
\* skipped
Finally ==
    /\ pc = "finally"
    /\ session' = IF driver # "None" THEN "closed" ELSE session
    /\ IF SaveNeeded(scraped_records)
       THEN \E saved \in BOOLEAN :
               excel_file' = [calls |-> excel_file.calls + 1, ok |-> saved,
                              rows |-> MergeLeft(df, scraped_records, 1)]
       ELSE UNCHANGED excel_file
    /\ IF skipped_items # <<>>
       THEN skipped_file' = [written |-> TRUE, lines |-> SkippedLines(skipped_items)]
       ELSE UNCHANGED skipped_file
    /\ pc' = "done"
    /\ UNCHANGED <<file_state, df, search_terms, i, driver, page, search_bar,
                   search_term, landed_on_detail_page, processed_count, skipped_items,
                   scraped_records, abort, submitted, title, results_wait,
                   result_links, clicked, roles_tried>>
    /\ UNCHANGED <<cleanVars, extractVars, cdeVars>>

(***************************************************************************)
(* SpecExtract: extract_contact_info, and lines 187-196 after it, applied  *)
(* to every block whose text has at most MaxTextLen symbols.               *)
(***************************************************************************)
\* the symbols of a block's text: a word, a blank, a line break, a phone number
TdSymbols == {"Jane", " ", "\n", "916-555-0100"}

\* what find_element("a[href^='mailto:']") meets inside a block
Mailtos ==
    { [kind |-> "none", href |-> <<>>],
      [kind |-> "error", href |-> <<>>],
      [kind |-> "link", href |-> <<"mailto:", "j@x">>] }

InitExtract ==
    /\ ScraperIdle
    /\ CleanIdle
    /\ CdeIdle
    /\ td_block \in [text : SeqsUpTo(TdSymbols, MaxTextLen), mailto : Mailtos]
    /\ contact_info = [name |-> <<"unset">>, phone |-> <<"unset">>, email |-> <<"unset">>]
    /\ role_records = <<>>

\* line 185: name, phone, email = extract_contact_info(td_element)
ExtractBlock ==
    /\ pc = "idle"
    /\ pc' = "extracted"
    /\ contact_info' = extract_contact_info(td_block)
    /\ UNCHANGED <<file_state, df, search_terms, i, driver, session, page,
                   search_bar, search_term, landed_on_detail_page, processed_count,
                   skipped_items, scraped_records, excel_file, skipped_file, abort,
                   submitted, title, results_wait, result_links, clicked,
                   roles_tried, td_block, role_records>>
    /\ UNCHANGED <<cleanVars, cdeVars>>

\* lines 187-199: the record appended for the first role of the term "b";
\* found_data is set exactly when one is appended
RecordRole ==
    /\ pc = "extracted"
    /\ pc' = "recorded"
    /\ role_records' = RoleRecords(<<"b">>, Roles[1], [kind |-> "block", td |-> td_block])
    /\ UNCHANGED <<file_state, df, search_terms, i, driver, session, page,
                   search_bar, search_term, landed_on_detail_page, processed_count,
                   skipped_items, scraped_records, excel_file, skipped_file, abort,
                   submitted, title, results_wait, result_links, clicked,
                   roles_tried, td_block, contact_info>>
    /\ UNCHANGED <<cleanVars, cdeVars>>

NextExtract == ExtractBlock \/ RecordRole

SpecExtract == InitExtract /\ [][NextExtract]_vars

(***************************************************************************)
(* SpecCDE: search_districts_and_click_link_on_cde of contactScraper.py,   *)
(* from the browser start of line 56 to the quit of line 172.              *)
(***************************************************************************)
\* lines 46-50: the district names, without NaN and duplicates, not empty
DistrictLists ==
    {names \in SeqsUpTo(RawTerms, MaxRows) :
        /\ names # <<>>
        /\ \A k, l \in 1..Len(names) : names[k] = names[l] => k = l}

InitCDE ==
    /\ ScraperIdle
    /\ CleanIdle
    /\ ExtractIdle
    /\ cde_pc = "start"
    /\ district_names \in DistrictLists
    /\ cde_i = 0
    /\ cde_driver = "None"
    /\ cde_session = "none"
    /\ cde_page = "blank"
    /\ cde_ready = FALSE
    /\ cde_typed_from = "none"
    /\ cde_outcomes = <<>>

\* the entry of cde_outcomes of the running iteration, closed with how it ended
CdeEnded(ended) ==
    [cde_outcomes EXCEPT ![Len(cde_outcomes)].ended = ended]

\* lines 57-70: Firefox(), maximize_window(), driver.get(CDE_URL); an
\* exception of any of them reaches line 163
CdeStartBrowser ==
    /\ cde_pc = "start"
    /\ \E step \in {"Firefox", "maximize_window", "get", "ready"} :
          CASE step = "Firefox" ->
                 /\ cde_pc' = "finally"
                 /\ UNCHANGED <<cde_driver, cde_session, cde_page, cde_ready>>
            [] step = "maximize_window" ->
                 /\ cde_driver' = "Firefox"
                 /\ cde_session' \in {"alive", "lost"}
                 /\ cde_pc' = "finally"
                 /\ UNCHANGED <<cde_page, cde_ready>>
            [] step = "get" ->
                 /\ cde_driver' = "Firefox"
                 /\ cde_session' \in {"alive", "lost"}
                 /\ cde_pc' = "finally"
                 /\ UNCHANGED <<cde_page, cde_ready>>
            [] step = "ready" ->
                 /\ cde_driver' = "Firefox"
                 /\ cde_session' = "alive"
                 /\ cde_page' = "entry"
                 /\ cde_ready' = TRUE
                 /\ cde_pc' = "loop"
    /\ UNCHANGED <<district_names, cde_i, cde_typed_from, cde_outcomes>>
    /\ UNCHANGED <<scraperVars, cleanVars, extractVars>>

\* lines 72-74: the next district name of the for loop; line 161 after the last
CdeNextTerm ==
    /\ cde_pc = "loop"
    /\ IF cde_i = Len(district_names)
       THEN /\ cde_pc' = "finally"
            /\ UNCHANGED <<cde_i, cde_typed_from, cde_outcomes>>
       ELSE /\ cde_i' = cde_i + 1
            /\ cde_typed_from' = "none"
            /\ cde_outcomes' = Append(cde_outcomes,
                                      [term |-> district_names[cde_i + 1],
                                       ended |-> "running"])
            /\ cde_pc' = "wait_bar"
    /\ UNCHANGED <<district_names, cde_driver, cde_session, cde_page, cde_ready>>
    /\ UNCHANGED <<scraperVars, cleanVars, extractVars>>

\* line 76: wait for the search field on the page the session shows; every
\* exception reaches line 151
CdeWaitSearchBar ==
    /\ cde_pc = "wait_bar"
    /\ \E found \in BOOLEAN :
          IF found /\ cde_session = "alive" /\ cde_page # "blank"
          THEN /\ cde_pc' = "submit"
               /\ UNCHANGED cde_session
          ELSE /\ cde_pc' = "recover"
               /\ cde_session' \in {cde_session, "lost"}
    /\ UNCHANGED <<district_names, cde_i, cde_driver, cde_page, cde_ready,
                   cde_typed_from, cde_outcomes>>
    /\ UNCHANGED <<scraperVars, cleanVars, extractVars>>

\* lines 79-85: clear the field, type district_name as it stands, RETURN; every
\* exception reaches line 151
CdeSubmitSearch ==
    /\ cde_pc = "submit"
    /\ \E sent \in BOOLEAN :
          IF sent /\ cde_session = "alive"
          THEN /\ cde_typed_from' = cde_page
               /\ cde_page' = "results"
               /\ cde_pc' = "wait_results"
               /\ UNCHANGED cde_session
          ELSE /\ cde_pc' = "recover"
               /\ cde_session' \in {cde_session, "lost"}
               /\ UNCHANGED <<cde_typed_from, cde_page>>
    /\ UNCHANGED <<district_names, cde_i, cde_driver, cde_ready, cde_outcomes>>
    /\ UNCHANGED <<scraperVars, cleanVars, extractVars>>

\* `driver.get(CDE_URL); continue` of lines 96-97, 140-141, 144-145 and
\* 148-149, run while the session shows the page `shown`: the iteration ends on
\* the entry page, or the exception of driver.get reaches line 151
CdeResetAndContinue(ended, shown) ==
    \E loaded \in BOOLEAN :
       IF loaded /\ cde_session = "alive"
       THEN /\ cde_page' = "entry"
            /\ cde_outcomes' = CdeEnded(ended)
            /\ cde_pc' = "loop"
            /\ UNCHANGED cde_session
       ELSE /\ cde_page' = shown
            /\ cde_pc' = "recover"
            /\ cde_session' \in {cde_session, "lost"}
            /\ UNCHANGED cde_outcomes

\* lines 89-97: wait for a clickable result link; a TimeoutException resets the
\* session to the entry URL and continues, every other exception reaches line 151
CdeWaitResults ==
    /\ cde_pc = "wait_results"
    /\ \E waited \in {"clickable", "TimeoutException", "WebDriverException"} :
          CASE waited = "clickable" ->
                 /\ cde_session = "alive"
                 /\ cde_pc' = "match"
                 /\ UNCHANGED <<cde_session, cde_page, cde_outcomes>>
            [] waited = "TimeoutException" ->
                 CdeResetAndContinue("TimeoutException", cde_page)
            [] waited = "WebDriverException" ->
                 /\ cde_pc' = "recover"
                 /\ cde_session' \in {cde_session, "lost"}
                 /\ UNCHANGED <<cde_page, cde_outcomes>>
    /\ UNCHANGED <<district_names, cde_i, cde_driver, cde_ready, cde_typed_from>>
    /\ UNCHANGED <<scraperVars, cleanVars, extractVars>>

\* line 113: link.is_displayed() and district_name.lower() in link.text.lower()
CdeLinkMatches(district_name, link) ==
    link.displayed /\ ContainsIgnoreCase(district_name, link.text)

\* lines 111-117: the index of the link the loop clicks, 0 when it ends unbroken
CdeMatchIndex(district_name, links) ==
    IF \E k \in 1..Len(links) : CdeLinkMatches(district_name, links[k])
    THEN CHOOSE k \in 1..Len(links) :
             /\ CdeLinkMatches(district_name, links[k])
             /\ \A j \in 1..(k - 1) : ~CdeLinkMatches(district_name, links[j])
    ELSE 0

\* lines 100-149: read the result links, click the first visible one that holds
\* the name and go back, or reload the entry URL; the three handlers reload the
\* entry URL and continue
CdeMatchAndClick ==
    /\ cde_pc = "match"
    /\ \E links \in SeqsUpTo(Candidates, MaxLinks) :
       \E fault \in {"none", "NoSuchElementException",
                     "StaleElementReferenceException", "Exception"} :
          LET m == CdeMatchIndex(district_names[cde_i], links)
          IN  IF fault # "none"
              THEN \* raised by find_elements, is_displayed, text or click
                   CdeResetAndContinue(fault, cde_page)
              ELSE IF m = 0
              THEN \* lines 129-135: driver.get(CDE_URL) and the wait
                   \E reset \in {"ready", "get", "wait"} :
                      CASE reset = "ready" ->
                             /\ cde_session = "alive"
                             /\ cde_page' = "entry"
                             /\ cde_outcomes' = CdeEnded("no_link")
                             /\ cde_pc' = "loop"
                             /\ UNCHANGED cde_session
                        [] reset = "get" -> CdeResetAndContinue("Exception", cde_page)
                        [] reset = "wait" ->
                             /\ cde_session = "alive"
                             /\ CdeResetAndContinue("Exception", "entry")
              ELSE \* lines 119-128: on the district page, driver.back() and the wait
                   \E back \in {"ready", "back", "wait"} :
                      CASE back = "ready" ->
                             /\ cde_session = "alive"
                             /\ cde_page' = "results"
                             /\ cde_outcomes' = CdeEnded("clicked")
                             /\ cde_pc' = "loop"
                             /\ UNCHANGED cde_session
                        [] back = "back" -> CdeResetAndContinue("Exception", "district")
                        [] back = "wait" ->
                             /\ cde_session = "alive"
                             /\ CdeResetAndContinue("Exception", "results")
    /\ UNCHANGED <<district_names, cde_i, cde_driver, cde_ready, cde_typed_from>>
    /\ UNCHANGED <<scraperVars, cleanVars, extractVars>>

\* lines 151-159 with the recovery outside a try: its exception reaches line 163
CdeRecoverEscapes ==
    /\ cde_pc = "recover"
    /\ \E loaded \in BOOLEAN :
          IF loaded /\ cde_session = "alive"
          THEN /\ cde_page' = "entry"
               /\ cde_outcomes' = CdeEnded("recovered")
               /\ cde_pc' = "loop"
          ELSE /\ cde_outcomes' = CdeEnded("recovery_failed")
               /\ cde_pc' = "finally"
               /\ UNCHANGED cde_page
    /\ UNCHANGED <<district_names, cde_i, cde_driver, cde_session, cde_ready,
                   cde_typed_from>>
    /\ UNCHANGED <<scraperVars, cleanVars, extractVars>>

\* lines 151-159: reload the entry URL and wait for the search field, pass over
\* every exception of the two, continue
CdeRecover ==
    /\ cde_pc = "recover"
    /\ \E loaded \in BOOLEAN :
          IF loaded /\ cde_session = "alive"
          THEN /\ cde_page' = "entry"
               /\ cde_outcomes' = CdeEnded("recovered")
          ELSE /\ cde_outcomes' = CdeEnded("recovery_failed")
               /\ UNCHANGED cde_page
    /\ cde_pc' = "loop"
    /\ UNCHANGED <<district_names, cde_i, cde_driver, cde_session, cde_ready,
                   cde_typed_from>>
    /\ UNCHANGED <<scraperVars, cleanVars, extractVars>>

\* lines 163-172: the outer handler prints; finally quits the browser if one started
CdeFinally ==
    /\ cde_pc = "finally"
    /\ cde_session' = IF cde_driver # "None" THEN "closed" ELSE cde_session
    /\ cde_pc' = "done"
    /\ UNCHANGED <<district_names, cde_i, cde_driver, cde_page, cde_ready,
                   cde_typed_from, cde_outcomes>>
    /\ UNCHANGED <<scraperVars, cleanVars, extractVars>>

NextCDE ==
    \/ CdeStartBrowser
    \/ CdeNextTerm
    \/ CdeWaitSearchBar
    \/ CdeSubmitSearch
    \/ CdeWaitResults
    \/ CdeMatchAndClick
    \/ CdeRecover
    \/ CdeFinally

SpecCDE == InitCDE /\ [][NextCDE]_vars

Next ==
    \/ LoadInput
    \/ StartBrowser
    \/ MaximizeWindow
    \/ NextTerm
    \/ WaitSearchBar
    \/ SubmitSearch
    \/ CheckLanding
    \/ MatchResults
    \/ ExtractContacts
    \/ Finally

Spec == Init /\ [][Next]_vars

\* the run as the interpreter executes it: the function is sequential, every
\* call returns or raises, and every wait is a WebDriverWait with a timeout
\* (lines 129 and 160), so a step that can be taken is taken
SpecLive == Init /\ [][Next]_vars /\ WF_vars(Next)

(***************************************************************************)
(* Properties of run_scraper_with_config                                   *)
(***************************************************************************)
\* the terms whose iteration ran to its end (counted or skipped)
TermsHandled == IF abort = "none" THEN i ELSE i - 1

\* the last entry of skipped_items
LastSkipped == skipped_items[Len(skipped_items)]

\* C1: when the run ends every unique term has exactly one outcome:
\* processed_count + len(skipped_items) == len(search_terms)
C1_EveryTermHasOneOutcome ==
    pc = "done" => processed_count + Len(skipped_items) = Len(search_terms)

\* C2: a stale element reference (like a timeout, no match or no data) never
\* leaves the iteration of its term: only a break on the entry page or the loss
\* of the session ends the batch
C2_RecoverableErrorsStayInTerm ==
    abort \in {"none", "break", "WebDriverException"}

\* C3: whenever webdriver.Firefox() returned a driver, the session is closed
\* when the function returns
C3_SessionClosedOnReturn ==
    (pc \in {"returned", "done"} /\ driver = "Firefox") => session = "closed"

\* a row of the merged dataset that carries the record rec
RowCarries(row, rec) ==
    /\ row.key = rec.term
    /\ row.name = rec.name
    /\ row.job_title = <<rec.job_title>>
    /\ row.email = rec.email
    /\ row.phone = rec.phone

\* C4: when the batch was aborted (break on the entry page, or an exception
\* out of the loop) and records were collected, to_excel has been called once
\* with a merged dataset that carries every collected record
C4_AbortStillSaves ==
    (pc = "done" /\ abort # "none" /\ scraped_records # <<>>) =>
        /\ excel_file.calls = 1
        /\ \A k \in 1..Len(scraped_records) :
              \E r \in 1..Len(excel_file.rows) :
                 RowCarries(excel_file.rows[r], scraped_records[k])

C4_Witness ==
    /\ pc = "done"
    /\ abort \in {"break", "StaleElementReferenceException"}
    /\ Len(scraped_records) >= 2
    /\ excel_file.calls = 1
    /\ excel_file.ok

\* C5: whenever a term has been typed and submitted in the current iteration,
\* the session showed the entry page and the search field had been located in
\* this same iteration
C5_SubmitFromEntryPage ==
    submitted.from # "none" => (submitted.from = "entry" /\ submitted.bar = i)

C5_Witness ==
    /\ i >= 2
    /\ pc = "landing"
    /\ submitted = [from |-> "entry", bar |-> i]
    /\ processed_count >= 1

\* the candidate the matcher is specified to pick: the first, in render order,
\* that is displayed and whose text contains the term ignoring case (0: none)
FirstVisibleMatch(st, links) ==
    LET ok(k) == links[k].displayed /\ ContainsIgnoreCase(st, links[k].text)
    IN  IF \E k \in 1..Len(links) : ok(k)
        THEN CHOOSE k \in 1..Len(links) : ok(k) /\ \A j \in 1..(k - 1) : ~ok(j)
        ELSE 0

\* C8: once the loop over the rendered links has ended, the link clicked is
\* the first visible one whose text contains the term; when there is none,
\* nothing was clicked and the term is skipped with "No matching link"
C8_ClicksFirstVisibleMatch ==
    (results_wait = "rendered" /\ pc \in {"extract", "loop"}) =>
        /\ clicked = FirstVisibleMatch(search_term, result_links)
        /\ clicked = 0 =>
              /\ pc = "loop"
              /\ skipped_items # <<>>
              /\ LastSkipped = search_terms[i] \o <<" (", "No matching link", ")">>

\* C9: an iteration that ended because the results wait timed out (the page
\* was no matching detail page) left "No search results" for its term;
\* rendered results without a match left "No matching link"; a detail page on
\* which no role gave a name left "No contact data found"; and at the end of
\* the run every skipped item is a line of the skip report
C9_SkipReasons ==
    /\ (pc = "loop" /\ results_wait = "timeout") =>
          /\ ~landed_on_detail_page
          /\ skipped_items # <<>>
          /\ LastSkipped = search_terms[i] \o <<" (", "No search results", ")">>
    /\ (pc = "loop" /\ results_wait = "rendered") =>
          /\ clicked = 0
          /\ skipped_items # <<>>
          /\ LastSkipped = search_terms[i] \o <<" (", "No matching link", ")">>
    /\ (pc = "loop" /\ roles_tried # <<>>
          /\ \A k \in 1..Len(roles_tried) :
                \/ roles_tried[k].kind # "block"
                \/ extract_contact_info(roles_tried[k].td).name = NA) =>
          /\ skipped_items # <<>>
          /\ LastSkipped = search_terms[i] \o <<" (", "No contact data found", ")">>
    /\ pc = "done" =>
          \A k \in 1..Len(skipped_items) :
             /\ skipped_file.written
             /\ k <= Len(skipped_file.lines)
             /\ skipped_file.lines[k] = skipped_items[k] \o <<"\n">>

C9_Witness ==
    /\ pc = "done"
    /\ Len(search_terms) = 2
    /\ skipped_file.written
    /\ skipped_file.lines[1] =
           <<"A", " ", "District", " (", "No search results", ")", "\n">>
    /\ Len(skipped_file.lines) = 2
    /\ skipped_file.lines[2] # <<"b", " (", "No search results", ")", "\n">>

\* the reasons a term is skipped with
SkipReasons == {"No search results", "No matching link", "No contact data found"}

\* C10: at the end of a run that started the session, skipped_items.txt is
\* written exactly when a term was skipped, it holds one line per skipped
\* term, no term twice, and each line is the original term followed by its
\* reason in parentheses
C10_SkipReport ==
    pc = "done" =>
        /\ skipped_file.written <=> (TermsHandled - processed_count > 0)
        /\ Len(skipped_file.lines) = TermsHandled - processed_count
        /\ \E owner \in [1..Len(skipped_file.lines) -> 1..Len(search_terms)] :
              /\ \A k, j \in 1..Len(skipped_file.lines) :
                    owner[k] = owner[j] => k = j
              /\ \A k \in 1..Len(skipped_file.lines) :
                    \E reason \in SkipReasons :
                       skipped_file.lines[k] =
                           search_terms[owner[k]] \o <<" (", reason, ")", "\n">>

C10_Witness ==
    /\ pc = "done"
    /\ skipped_file.written
    /\ \E k \in 1..Len(skipped_file.lines) :
          SubSeq(skipped_file.lines[k], 1, 3) = <<"A", " ", "District">>
    /\ processed_count >= 1

\* C11: to_excel is called at most once in a run, only in the final step and
\* only with at least one collected record; a run that has ended without a
\* record has not called it
C11_DatasetWrittenOnlyWithRecords ==
    /\ excel_file.calls <= 1
    /\ excel_file.calls = 1 => (pc = "done" /\ scraped_records # <<>>)
    /\ (pc \in {"returned", "done"} /\ scraped_records = <<>>) =>
          (excel_file.calls = 0 /\ ~excel_file.ok /\ excel_file.rows = <<>>)

C11_Witness ==
    /\ pc = "done"
    /\ scraped_records = <<>>
    /\ Len(skipped_items) = Len(search_terms)
    /\ Len(search_terms) = 2
    /\ excel_file.calls = 0

\* C12: after an input error (file missing or unreadable, key column
\* missing) the run returns at once: no driver, no session, no to_excel call,
\* no skip report
C12_InputErrorReturnsEarly ==
    file_state # "ok" =>
        /\ pc \in {"load", "returned"}
        /\ driver = "None"
        /\ session = "none"
        /\ i = 0
        /\ excel_file.calls = 0
        /\ ~skipped_file.written

C12_Witness ==
    /\ pc = "returned"
    /\ file_state = "no_column"
    /\ driver = "None"

\* the block's text holds something the phone pattern matches
HasPhone(td) == \E k \in 1..Len(td.text) : td.text[k] = "916-555-0100"

\* the block's text holds a line that is not blank
HasName(td) == \E k \in 1..Len(td.text) : td.text[k] \notin {" ", "\n", "\t"}

\* C15: once a fatal condition has occurred (the search field of the entry
\* page not present within the wait, or an exception that escaped the
\* per-term steps), the only step left is the finally block: no further term
\* is taken, nothing is navigated, typed or clicked, no record or skipped
\* item is added, and that step closes the session and runs persistence
C15_FatalStopsBatch ==
    [][abort # "none" =>
          /\ pc = "finally"
          /\ pc' = "done"
          /\ driver # "None"
          /\ session' = "closed"
          /\ excel_file'.calls = IF scraped_records # <<>> THEN 1 ELSE 0
          /\ skipped_file'.written = (skipped_items # <<>>)
          /\ UNCHANGED <<i, page, search_bar, submitted, title, results_wait,
                         result_links, clicked, roles_tried, scraped_records,
                         skipped_items, processed_count, abort>>]_vars

C15_Witness ==
    /\ pc = "done"
    /\ abort = "break"
    /\ i = 1
    /\ Len(search_terms) = 2
    /\ submitted.from = "none"
    /\ session = "closed"
    /\ excel_file.calls = 0

\* role k of the term just extracted met a block that has a name
RoleHasName(k) ==
    /\ roles_tried[k].kind = "block"
    /\ HasName(roles_tried[k].td)

\* the records of the term just extracted that carry role k
RecordsOfRole(k) ==
    {n \in 1..Len(scraped_records) :
        /\ scraped_records[n].term = search_terms[i]
        /\ scraped_records[n].job_title = Roles[k]}

\* C16: after the extraction of a term every configured role has been
\* attempted, whatever the other roles met: a role has its record exactly when
\* its own block was found and has a name, an absent or raising role leaves
\* the records of the other roles in place, and the iteration ends normally,
\* the term counted or skipped, with no fatal condition
C16_RoleFailureStaysInRole ==
    roles_tried # <<>> =>
        /\ Len(roles_tried) = Len(Roles)
        /\ abort = "none"
        /\ pc \in {"loop", "finally", "done"}
        /\ \A k \in 1..Len(Roles) :
              Cardinality(RecordsOfRole(k)) = IF RoleHasName(k) THEN 1 ELSE 0
        /\ \A k, l \in 1..Len(Roles) :
              (k < l /\ RoleHasName(k) /\ RoleHasName(l)) =>
                 \A n \in RecordsOfRole(k) : \A o \in RecordsOfRole(l) : n < o
        /\ IF \E k \in 1..Len(Roles) : RoleHasName(k)
           THEN processed_count >= 1
           ELSE LastSkipped = FormatSkipped(search_terms[i], ReasonNoData)

C16_Witness ==
    /\ pc = "loop"
    /\ roles_tried # <<>>
    /\ roles_tried[1].kind = "error"
    /\ RoleHasName(2)
    /\ Cardinality(RecordsOfRole(2)) = 1

\* the title element read after the search holds the typed term
TitleHoldsTerm ==
    /\ title.state = "read"
    /\ ContainsIgnoreCase(search_term, title.text)

\* C18: while the title element read after the search holds the typed term,
\* the iteration is at the extraction with no wait for result links and no
\* click made; when the title element is absent or does not hold the term,
\* the iteration is at the results wait, or past it, and it reaches the
\* extraction only with the links rendered and a matching link clicked
C18_LandingSkipsMatching ==
    /\ TitleHoldsTerm =>
          /\ pc = "extract"
          /\ landed_on_detail_page
          /\ results_wait = "none"
          /\ result_links = <<>>
          /\ clicked = 0
    /\ (title.state = "absent" \/ (title.state = "read" /\ ~TitleHoldsTerm)) =>
          /\ ~landed_on_detail_page
          /\ pc \in {"results", "extract", "loop", "finally", "done"}
          /\ pc = "results" <=> results_wait = "none"
          /\ pc = "extract" =>
                /\ results_wait = "rendered"
                /\ clicked \in 1..Len(result_links)
                /\ LinkMatches(search_term, result_links[clicked])
    /\ pc = "extract" => title.state \in {"read", "absent"}
    /\ pc = "results" => title.state \in {"read", "absent"}

C18_Witness ==
    /\ pc = "extract"
    /\ TitleHoldsTerm
    /\ search_term = <<"b">>
    /\ title.text = <<"A", "b">>
    /\ results_wait = "none"
    /\ clicked = 0

\* the terms of search_terms that have a record in scraped_records
TermsWithRecord ==
    {t \in 1..Len(search_terms) :
        \E n \in 1..Len(scraped_records) : scraped_records[n].term = search_terms[t]}

\* C17: every record has a name other than "N/A" and is keyed by a term of
\* search_terms as the input file gives it, a term already reached by the
\* loop; the processed count is the number of terms with a record; no
\* skipped item names a term that has a record
C17_RecordsAndProcessed ==
    /\ \A n \in 1..Len(scraped_records) :
          /\ scraped_records[n].name # <<"N/A">>
          /\ scraped_records[n].name # <<>>
          /\ \E t \in 1..i : scraped_records[n].term = search_terms[t]
          /\ \E r \in 1..Len(df) : scraped_records[n].term = df[r]
    /\ processed_count = Cardinality(TermsWithRecord)
    /\ \A k \in 1..Len(skipped_items) : \A t \in TermsWithRecord :
          \A reason \in SkipReasons :
             skipped_items[k] # FormatSkipped(search_terms[t], reason)

C17_Witness ==
    /\ pc = "done"
    /\ Len(search_terms) = 2
    /\ processed_count = 1
    /\ Len(skipped_items) = 1
    /\ \E n \in 1..Len(scraped_records) :
          /\ scraped_records[n].term = <<"A", " ", "District">>
          /\ clean_search_term(scraped_records[n].term) # scraped_records[n].term

\* the steps a term's iteration still has before it is back at the loop head
IterationStepsLeft ==
    CASE pc = "wait_bar" -> 5
      [] pc = "submit" -> 4
      [] pc = "landing" -> 3
      [] pc = "results" -> 2
      [] pc = "extract" -> 1
      [] OTHER -> 0

\* an upper bound of the steps the run still takes before it has ended
StepsLeft ==
    CASE pc = "load" -> 6 * Len(df) + 6
      [] pc = "start" -> 6 * Len(search_terms) + 5
      [] pc = "maximize" -> 6 * Len(search_terms) + 4
      [] pc \in {"loop", "wait_bar", "submit", "landing", "results", "extract"} ->
            6 * (Len(search_terms) - i) + IterationStepsLeft + 2
      [] pc = "finally" -> 1
      [] OTHER -> 0

\* C21 as claimed: every run reaches the final state in which the session is
\* closed and the persistence and summary step has executed
C21_EveryRunReachesFinalState == <>(pc = "done" /\ session = "closed")

\* C21 amended: every run ends, returned before the loop or done after the
\* finally block.  Every step brings the run closer to its end (StepsLeft
\* decreases and is bounded by the length of the input), and no step is missing
\* before the end, so under SpecLive the end is reached.  A run that returns
\* does so before the loop: no term entered, nothing persisted, no summary.  A
\* run that has reached the loop ends done with the session closed.  A term is
\* entered only by the loop, one after the other, never more than the list
\* holds; between the terms every term entered so far is processed or skipped,
\* and at the end all are but the one an abort stopped.  The finally block is
\* the only way into the final state, it saves the dataset at most once, and
\* nothing runs after it
C21_RunTerminates ==
    /\ [][StepsLeft' < StepsLeft]_vars
    /\ [](StepsLeft \in 0..(6 * MaxRows + 6))
    /\ [](pc \notin {"returned", "done"} => ENABLED Next)
    /\ [](pc = "done" => session = "closed")
    /\ [][pc' = "returned" => pc \in {"load", "start", "maximize"}]_vars
    /\ [](pc = "returned" =>
            (i = 0 /\ excel_file.calls = 0 /\ ~skipped_file.written))
    /\ [](i <= Len(search_terms))
    /\ [](pc \in {"loop", "finally", "done"} =>
            processed_count + Len(skipped_items) = TermsHandled)
    /\ [](pc = "done" => (driver # "None" /\ excel_file.calls <= 1))
    /\ [][/\ i' # i => (pc = "loop" /\ i' = i + 1)
          /\ pc' = "done" => pc = "finally"
          /\ pc \notin {"returned", "done"}]_vars

C21_Witness ==
    /\ pc = "done"
    /\ session = "closed"
    /\ Len(search_terms) = 2
    /\ i = 2
    /\ abort = "StaleElementReferenceException"
    /\ processed_count = 1
    /\ skipped_items = <<>>
    /\ excel_file.calls = 1

\* the records collected under the key of row r of df
RecordsOfRow(r) == {k \in 1..Len(scraped_records) : scraped_records[k].term = df[r]}

\* the rows of the output dataset that come from row r of df
OutputOfRow(r) == {j \in 1..Len(excel_file.rows) : excel_file.rows[j].row = r}

\* C14: the dataset handed to to_excel is the left join of df with the
\* records on the key column: no row of df is dropped, a row whose key has
\* r >= 1 records appears r times, once with each record, and a row whose key
\* has no record appears once with its key and blank output columns
C14_OutputIsLeftJoin ==
    excel_file.calls = 1 =>
        /\ Len(excel_file.rows) >= Len(df)
        /\ \A j \in 1..Len(excel_file.rows) :
              /\ excel_file.rows[j].row \in 1..Len(df)
              /\ excel_file.rows[j].key = df[excel_file.rows[j].row]
              /\ j > 1 => excel_file.rows[j - 1].row <= excel_file.rows[j].row
        /\ \A r \in 1..Len(df) :
              IF RecordsOfRow(r) = {}
              THEN /\ Cardinality(OutputOfRow(r)) = 1
                   /\ \A j \in OutputOfRow(r) :
                         /\ excel_file.rows[j].name = Blank
                         /\ excel_file.rows[j].job_title = Blank
                         /\ excel_file.rows[j].email = Blank
                         /\ excel_file.rows[j].phone = Blank
              ELSE /\ Cardinality(OutputOfRow(r)) = Cardinality(RecordsOfRow(r))
                   /\ \A k \in RecordsOfRow(r) :
                         \E j \in OutputOfRow(r) :
                            RowCarries(excel_file.rows[j], scraped_records[k])

C14_Witness ==
    /\ excel_file.calls = 1
    /\ excel_file.ok
    /\ Len(df) = 2
    /\ Cardinality(RecordsOfRow(1)) = 2
    /\ RecordsOfRow(2) = {}
    /\ Len(excel_file.rows) = 3

(***************************************************************************)
(* Properties of search_districts_and_click_link_on_cde                    *)
(***************************************************************************)
\* C19: once the browser has started and shown the entry URL, the for loop
\* takes every district name once, in the order of district_names, whatever
\* the iterations meet; the loop is left only after the last name, and the
\* browser is then closed
C19_BatchNeverAborted ==
    cde_ready =>
        /\ Len(cde_outcomes) = cde_i
        /\ \A k \in 1..Len(cde_outcomes) : cde_outcomes[k].term = district_names[k]
        /\ \A k \in 1..(Len(cde_outcomes) - 1) : cde_outcomes[k].ended # "running"
        /\ cde_pc \in {"finally", "done"} =>
              /\ cde_i = Len(district_names)
              /\ cde_outcomes[cde_i].ended # "running"
        /\ cde_pc = "done" => cde_session = "closed"

C19_Witness ==
    /\ cde_pc = "done"
    /\ cde_ready
    /\ Len(district_names) = 2
    /\ cde_outcomes[1].ended = "recovery_failed"
    /\ cde_outcomes[2].ended = "clicked"
    /\ cde_session = "closed"

\* C20: the term of an iteration is typed into the search field of the entry
\* page, and every finished iteration has left the session on the entry page
C20_IterationEndsOnEntryPage ==
    /\ cde_typed_from \in {"none", "entry"}
    /\ (cde_pc = "loop" /\ cde_i >= 1) => cde_page = "entry"

(***************************************************************************)
(* Properties of extract_contact_info                                      *)
(***************************************************************************)
\* C13 as claimed: every block with a mailto link and no phone match gives a
\* record with the email set and the phone "N/A", and the term is counted
C13_MailtoWithoutPhoneIsProcessed ==
    (pc = "recorded" /\ td_block.mailto.kind = "link" /\ ~HasPhone(td_block)) =>
        /\ Len(role_records) = 1
        /\ role_records[1].email = <<"j@x">>
        /\ role_records[1].phone = <<"N/A">>

\* C13 amended: extract_contact_info gives a triple for every block, each
\* sub-field "N/A" exactly when it is absent; a record is appended (and the
\* term counted) exactly when the block has a name; a block with a name, a
\* mailto link and no phone match gives one record with the email set and the
\* phone "N/A"
C13_ExtractTriple ==
    /\ pc \in {"extracted", "recorded"} =>
          /\ contact_info.name = <<"N/A">> <=> ~HasName(td_block)
          /\ HasName(td_block) =>
                /\ Contains(contact_info.name, td_block.text)
                /\ \A k \in 1..Len(contact_info.name) : contact_info.name[k] # "\n"
                /\ contact_info.name[1] # " "
                /\ contact_info.name[Len(contact_info.name)] # " "
          /\ contact_info.phone =
                 IF HasPhone(td_block) THEN <<"916-555-0100">> ELSE <<"N/A">>
          /\ contact_info.email =
                 IF td_block.mailto.kind = "link" THEN <<"j@x">> ELSE <<"N/A">>
    /\ pc = "recorded" =>
          /\ role_records # <<>> <=> HasName(td_block)
          /\ Len(role_records) <= 1
          /\ \A k \in 1..Len(role_records) :
                /\ role_records[k].term = <<"b">>
                /\ role_records[k].job_title = "Superintendent"
                /\ role_records[k].name = contact_info.name
                /\ role_records[k].phone = contact_info.phone
                /\ role_records[k].email = contact_info.email

C13_Witness ==
    /\ pc = "recorded"
    /\ td_block.mailto.kind = "link"
    /\ ~HasPhone(td_block)
    /\ Len(role_records) = 1
    /\ role_records[1].email = <<"j@x">>
    /\ role_records[1].phone = <<"N/A">>
    /\ role_records[1].name = <<"Jane", " ", "Jane">>

(***************************************************************************)
(* Properties of clean_search_term                                         *)
(***************************************************************************)
\* C6: clean_search_term(clean_search_term(x)) = clean_search_term(x)
C6_CleanIdempotent ==
    pc = "recleaned" => cleaned_again = cleaned_name

\* C7: clean_search_term returns a non-empty string for a non-empty input
C7_CleanNeverEmpty ==
    (pc = "cleaned" /\ term # <<>>) => cleaned_name # <<>>

====
